---- MODULE Spec2Model ----
(***************************************************************************)
(* The course-progress engine of the adaptive-learning application: the    *)
(* module-unlock handler (verify-module) and the lesson-completion handler *)
(* (XP and streak accounting), in the revisions the repository ships:      *)
(*   "firestore"  controllers/appController.js (document store)            *)
(*   "sqlite"     the SQL routes run on config/database.js                 *)
(*   "mysql"      the SQL routes run on migrations/add_gamification.sql    *)
(* A deployment runs one revision; it is chosen in Init and never changes. *)
(* Every await on the store is one step: a handler is a chain of steps     *)
(* and two requests interleave at those steps.                             *)
(***************************************************************************)
EXTENDS Integers, Sequences, FiniteSets, TLC

\* ---- program constants
QuizLen == 3
PassMark == 2
MaxAiScore == 5

\* ---- bounds of the model
\* modules in the stored syllabus (the handlers take any length)
NumModules == 3
\* requests in flight at once
NumReq == 2

\* topics of a module of the stored syllabus
NumTopics == 2
\* calendar days the clock runs through
MaxDay == 4

VARIABLES backend, completed_modules, progress, vreq,
          user, completions, today, lreq,
          gin, gout,
          lessons, quizzes, session, assessments, courses, reply

courseVars == <<completed_modules, progress, vreq>>
lessonVars == <<user, completions, today, lreq>>
\* the argument and the result of a call of one of the pure functions
\* (grading, quiz normalisation, syllabus creation)
pureVars == <<gin, gout>>
\* the lesson cache, the number of diagnostic quizzes generated, the session's
\* currentAssessment, the stored assessments and courses, and the last reply of
\* the lesson endpoint or of a diagnostic handler
siteVars == <<lessons, quizzes, session, assessments, courses, reply>>
vars == <<backend, completed_modules, progress, vreq, user, completions, today, lreq,
          gin, gout, lessons, quizzes, session, assessments, courses, reply>>

\* no pending assessment in the session; no reply yet
NoSession == [quiz |-> 0, assessmentId |-> 0]
NoReply == [op |-> "none"]
InitSite ==
    /\ lessons = {}
    /\ quizzes = 0
    /\ session = NoSession
    /\ assessments = <<>>
    /\ courses = <<>>
    /\ reply = NoReply

Backends == {"firestore", "sqlite", "mysql"}
Req == 1..NumReq

Max(a, b) == IF a >= b THEN a ELSE b

\* ---- the stored syllabus: NumModules modules, each with the correctIndex of
\* its QuizLen exit-quiz questions. No handler writes it after the course is
\* created, so it is a value, not a variable.
QuizKey(i) == IF i % 2 = 1 THEN <<0, 1, 0>> ELSE <<1, 1, 0>>
StoredSyllabus ==
    [i \in 1..NumModules |-> [topics |-> NumTopics, exit_quiz |-> QuizKey(i)]]

\* syllabus[moduleIndex] of the 0-based JavaScript array: is there a module?
HasModule(syl, moduleIndex) == moduleIndex \in 0..(Len(syl) - 1)
ModuleAt(syl, moduleIndex) == syl[moduleIndex + 1]

\* ---- request inputs of verify-module
AnswerVals == {0, 1}
AnswerLists == UNION {[1..n -> AnswerVals] : n \in 0..(QuizLen + 1)}
Bodies == {[hasAnswers |-> FALSE, userAnswers |-> <<>>]}
            \cup {[hasAnswers |-> TRUE, userAnswers |-> l] : l \in AnswerLists}
ModuleInputs == (-1)..NumModules

\* userAnswers.reduce(...): reducing an absent list, or reading
\* exit_quiz[idx].correctIndex past the end of the quiz, throws
GradeThrows(quiz, body) ==
    \/ ~body.hasAnswers
    \/ Len(body.userAnswers) > Len(quiz)

Score(quiz, body) ==
    Cardinality({idx \in 1..Len(body.userAnswers) : body.userAnswers[idx] = quiz[idx]})

Grade(quiz, body) ==
    IF GradeThrows(quiz, body)
    THEN [throws |-> TRUE, score |-> 0]
    ELSE [throws |-> FALSE, score |-> Score(quiz, body)]

\* what grading can give for module m over every request body
GradeOutcomes ==
    [m \in 0..(NumModules - 1) |->
        {Grade(ModuleAt(StoredSyllabus, m).exit_quiz, body) : body \in Bodies}]
AnyOutcome == [throws |-> TRUE, score |-> 0]
OutcomesFor(m) == IF HasModule(StoredSyllabus, m) THEN GradeOutcomes[m] ELSE {AnyOutcome}

PassedBroken(score) == score >= PassMark - 1
Passed(score) == score >= PassMark

NewCompletedBroken(snapshot, moduleIndex) == snapshot + moduleIndex + 1
NewCompletedFs(snapshot, moduleIndex) == Max(snapshot, moduleIndex + 1)

\* ---- a request slot: where the handler is, and its response once it is done
\* (no revision's response has an alreadyUnlocked field: it is never set)
Idle == [pc |-> "idle", moduleIndex |-> -1, newCompletedModules |-> -1,
         status |-> 0, passed |-> FALSE, alreadyUnlocked |-> FALSE]
Writing(m, ncm) == [pc |-> "write", moduleIndex |-> m, newCompletedModules |-> ncm,
                    status |-> 0, passed |-> TRUE, alreadyUnlocked |-> FALSE]
Respond(m, status, passed, ncm) ==
    [pc |-> "done", moduleIndex |-> m, newCompletedModules |-> ncm,
     status |-> status, passed |-> passed, alreadyUnlocked |-> FALSE]

CanStart(r) == vreq[r].pc \in {"idle", "done"}

\* ---- verifyModuleMastery (Firestore): from the course read up to the update.
\* The response carries no completed-modules counter (-1: absent).
FsVerifyRead(r, m, g) ==
    /\ backend = "firestore"
    /\ UNCHANGED <<siteVars, backend, completed_modules, progress, lessonVars, pureVars>>
    /\ IF ~HasModule(StoredSyllabus, m)
       THEN vreq' = [vreq EXCEPT ![r] = Respond(m, 400, FALSE, -1)]
       ELSE IF g.throws
       THEN vreq' = [vreq EXCEPT ![r] = Respond(m, 500, FALSE, -1)]
       ELSE IF Passed(g.score)
       THEN vreq' = [vreq EXCEPT ![r] = Writing(m, NewCompletedFs(completed_modules, m))]
       ELSE vreq' = [vreq EXCEPT ![r] = Respond(m, 200, FALSE, -1)]

\* the update of the course document, then the response
FsVerifyWrite(r) ==
    /\ backend = "firestore"
    /\ vreq[r].pc = "write"
    /\ completed_modules' = vreq[r].newCompletedModules
    /\ vreq' = [vreq EXCEPT ![r] = Respond(vreq[r].moduleIndex, 200, TRUE, -1)]
    /\ UNCHANGED <<siteVars, backend, progress, lessonVars, pureVars>>

\* ---- POST /course/:id/module/:moduleIndex/verify (SQL routes): the quiz is
\* generated again and graded by the content generator, whose answer is any
\* score 0..MaxAiScore (the lowest, the highest and the two around the pass
\* mark are tried), or a failure (-1) that ends the request with a 500.
AiOutcomes == {-1, 0, PassMark - 1, PassMark, MaxAiScore}

SqlUnlocks(passed, moduleIndex, snapshot) == passed /\ moduleIndex = snapshot

SqlVerifyRead(r, m, ai) ==
    /\ backend # "firestore"
    /\ UNCHANGED <<siteVars, backend, completed_modules, progress, lessonVars, pureVars>>
    /\ IF ~HasModule(StoredSyllabus, m)
       THEN vreq' = [vreq EXCEPT ![r] = Respond(m, 404, FALSE, -1)]
       ELSE IF ai < 0
       THEN vreq' = [vreq EXCEPT ![r] = Respond(m, 500, FALSE, -1)]
       ELSE IF SqlUnlocks(Passed(ai), m, completed_modules)
       THEN vreq' = [vreq EXCEPT ![r] = Writing(m, m + 1)]
       ELSE vreq' = [vreq EXCEPT ![r] =
                        Respond(m, 200, Passed(ai),
                                IF Passed(ai) THEN m + 1 ELSE completed_modules)]

\* (an UPDATE that adds 1 to the stored counter instead of storing moduleIndex + 1)
SqlVerifyWriteIncrement(r) ==
    /\ backend # "firestore"
    /\ vreq[r].pc = "write"
    /\ completed_modules' = completed_modules + 1
    /\ vreq' = [vreq EXCEPT ![r] =
                  Respond(vreq[r].moduleIndex, 200, TRUE, vreq[r].moduleIndex + 1)]
    /\ UNCHANGED <<siteVars, backend, progress, lessonVars, pureVars>>

\* UPDATE courses SET completed_modules = moduleIndex + 1, then the response
SqlVerifyWrite(r) ==
    /\ backend # "firestore"
    /\ vreq[r].pc = "write"
    /\ completed_modules' = vreq[r].newCompletedModules
    /\ vreq' = [vreq EXCEPT ![r] =
                  Respond(vreq[r].moduleIndex, 200, TRUE, vreq[r].moduleIndex + 1)]
    /\ UNCHANGED <<siteVars, backend, progress, lessonVars, pureVars>>

\* ---- no pure function has been called
NoCall == [fn |-> "none"]

\* ---- lesson completion: inputs
DefaultXp == 100
OtherXp == 40
NullDate == -1
XpInputs == {DefaultXp, OtherXp}
LessonModules == {0}
ValidLessons == {<<m, t>> : m \in LessonModules, t \in 0..(NumTopics - 1)}
\* and a module past the syllabus, and a topic past the module's topics
LessonInputs == ValidLessons \cup {<<NumModules, 0>>, <<0, NumTopics>>}

\* syllabus[moduleIndex] && syllabus[moduleIndex].topics[topicIndex]
HasTopic(syl, key) ==
    /\ HasModule(syl, key[1])
    /\ key[2] \in 0..(ModuleAt(syl, key[1]).topics - 1)

\* the rows (their xp_earned, oldest first) stored for a lesson
LessonExistsBroken(comps, key) == FALSE
LessonExists(comps, key) == comps[key] # <<>>

\* Firestore: doc(completionDocId).set(...) replaces the document
FsInsert(comps, key, xp) == [comps EXCEPT ![key] = <<xp>>]

\* SQL: INSERT INTO lesson_completions; UNIQUE (user_id, course_id, module_index,
\* topic_index) is in the SQLite schema, the MySQL migration has a plain KEY
SqlInsertOk(b, comps, key) == b = "mysql" \/ comps[key] = <<>>
SqlInsert(comps, key, xp) == [comps EXCEPT ![key] = Append(@, xp)]

\* Firestore: the streak from the user document read before the update
NextStreak(lastLessonDate, currentStreak, todayStr, yesterdayStr) ==
    IF lastLessonDate = todayStr THEN currentStreak
    ELSE IF lastLessonDate = yesterdayStr THEN currentStreak + 1
    ELSE 1

FsUpdateUserBroken(u, xp, todayStr, nextStreak) ==
    [total_xp |-> gin.user.total_xp + xp, streak_days |-> nextStreak, last_lesson_date |-> todayStr]
FsUpdateUser(u, xp, todayStr, nextStreak) ==
    [total_xp |-> u.total_xp + xp, streak_days |-> nextStreak, last_lesson_date |-> todayStr]

\* SQL: UPDATE users SET total_xp = total_xp + ?, last_lesson_date = CURRENT_DATE
SqlAward(u, xp, day) ==
    [u EXCEPT !.total_xp = @ + xp, !.last_lesson_date = day]

\* SQL: the streak from last_lesson_date as selected after that UPDATE
SqlStreakDecision(lastLessonDate, yesterdayStr) ==
    IF lastLessonDate = yesterdayStr THEN "inc"
    ELSE IF lastLessonDate = NullDate \/ lastLessonDate < yesterdayStr THEN "reset"
    ELSE "none"

SqlApplyStreak(u, decision) ==
    IF decision = "inc" THEN [u EXCEPT !.streak_days = @ + 1]
    ELSE IF decision = "reset" THEN [u EXCEPT !.streak_days = 1]
    ELSE u

\* ---- a lesson request slot
LIdle == [pc |-> "idle", key |-> <<-1, -1>>, xpEarned |-> 0, nextStreak |-> 0,
          todayStr |-> NullDate, decision |-> "none", status |-> 0]
LAt(pc, key, xp) == [LIdle EXCEPT !.pc = pc, !.key = key, !.xpEarned = xp]
LDone(key, xp, status) == [LAt("done", key, xp) EXCEPT !.status = status]

LCanStart(r) == lreq[r].pc \in {"idle", "done"}

\* ---- completeLesson (Firestore), one step per store call
FsLessonCheck(r, key, xp) ==
    /\ backend = "firestore"
    /\ lreq' = [lreq EXCEPT ![r] =
                  IF LessonExists(completions, key)
                  THEN LDone(key, xp, 200) ELSE LAt("insert", key, xp)]
    /\ UNCHANGED <<siteVars, backend, courseVars, pureVars, user, completions, today>>

FsLessonInsert(r) ==
    /\ backend = "firestore"
    /\ lreq[r].pc = "insert"
    /\ completions' = FsInsert(completions, lreq[r].key, lreq[r].xpEarned)
    /\ lreq' = [lreq EXCEPT ![r].pc = "readUser"]
    /\ UNCHANGED <<siteVars, backend, courseVars, pureVars, user, today>>

FsLessonReadUser(r) ==
    /\ backend = "firestore"
    /\ lreq[r].pc = "readUser"
    /\ lreq' = [lreq EXCEPT ![r].pc = "update",
                            ![r].todayStr = today,
                            ![r].nextStreak =
                               NextStreak(user.last_lesson_date, user.streak_days,
                                          today, today - 1)]
    /\ UNCHANGED <<siteVars, backend, courseVars, pureVars, user, completions, today>>

FsLessonUpdate(r) ==
    /\ backend = "firestore"
    /\ lreq[r].pc = "update"
    /\ user' = FsUpdateUser(user, lreq[r].xpEarned, lreq[r].todayStr, lreq[r].nextStreak)
    /\ lreq' = [lreq EXCEPT ![r] = LDone(lreq[r].key, lreq[r].xpEarned, 200)]
    /\ UNCHANGED <<siteVars, backend, courseVars, pureVars, completions, today>>

\* ---- POST /course/:id/complete (SQL routes), one step per query
SqlLessonCheck(r, key, xp) ==
    /\ backend # "firestore"
    /\ lreq' = [lreq EXCEPT ![r] =
                  IF ~HasTopic(StoredSyllabus, key) THEN LDone(key, xp, 404)
                  ELSE IF LessonExists(completions, key) THEN LDone(key, xp, 200)
                  ELSE LAt("insert", key, xp)]
    /\ UNCHANGED <<siteVars, backend, courseVars, pureVars, user, completions, today>>

\* a refused insert throws: the request ends with the error page (500)
SqlLessonInsert(r) ==
    /\ backend # "firestore"
    /\ lreq[r].pc = "insert"
    /\ IF SqlInsertOk(backend, completions, lreq[r].key)
       THEN /\ completions' = SqlInsert(completions, lreq[r].key, lreq[r].xpEarned)
            /\ lreq' = [lreq EXCEPT ![r].pc = "award"]
       ELSE /\ completions' = completions
            /\ lreq' = [lreq EXCEPT ![r] = LDone(lreq[r].key, lreq[r].xpEarned, 500)]
    /\ UNCHANGED <<siteVars, backend, courseVars, pureVars, user, today>>

SqlLessonAward(r) ==
    /\ backend # "firestore"
    /\ lreq[r].pc = "award"
    /\ user' = SqlAward(user, lreq[r].xpEarned, today)
    /\ lreq' = [lreq EXCEPT ![r].pc = "readDate"]
    /\ UNCHANGED <<siteVars, backend, courseVars, pureVars, completions, today>>

SqlLessonReadDate(r) ==
    /\ backend # "firestore"
    /\ lreq[r].pc = "readDate"
    /\ LET d == SqlStreakDecision(user.last_lesson_date, today - 1) IN
         lreq' = [lreq EXCEPT ![r] =
                    IF d = "none" THEN LDone(lreq[r].key, lreq[r].xpEarned, 200)
                    ELSE [lreq[r] EXCEPT !.pc = "streak", !.decision = d]]
    /\ UNCHANGED <<siteVars, backend, courseVars, pureVars, user, completions, today>>

SqlLessonStreak(r) ==
    /\ backend # "firestore"
    /\ lreq[r].pc = "streak"
    /\ user' = SqlApplyStreak(user, lreq[r].decision)
    /\ lreq' = [lreq EXCEPT ![r] = LDone(lreq[r].key, lreq[r].xpEarned, 200)]
    /\ UNCHANGED <<siteVars, backend, courseVars, pureVars, completions, today>>

\* midnight
Tick ==
    /\ today < MaxDay
    /\ today' = today + 1
    /\ UNCHANGED <<siteVars, backend, courseVars, pureVars, user, completions, lreq>>

\* ---- one whole completeLesson call with no other request running: the
\* steps above, one after the other, on one day
FsLessonResult(u, comps, day, key, xp) ==
    IF LessonExists(comps, key)
    THEN [user |-> u, completions |-> comps, status |-> 200]
    ELSE [user |-> FsUpdateUser(u, xp, day,
                                NextStreak(u.last_lesson_date, u.streak_days, day, day - 1)),
          completions |-> FsInsert(comps, key, xp),
          status |-> 200]

SqlLessonResult(b, u, comps, day, key, xp) ==
    IF ~HasTopic(StoredSyllabus, key)
    THEN [user |-> u, completions |-> comps, status |-> 404]
    ELSE IF LessonExists(comps, key)
    THEN [user |-> u, completions |-> comps, status |-> 200]
    ELSE IF ~SqlInsertOk(b, comps, key)
    THEN [user |-> u, completions |-> comps, status |-> 500]
    ELSE LET awarded == SqlAward(u, xp, day) IN
         [user |-> SqlApplyStreak(awarded,
                                  SqlStreakDecision(awarded.last_lesson_date, day - 1)),
          completions |-> SqlInsert(comps, key, xp),
          status |-> 200]

CompleteLessonSeq(key, xp) ==
    LET res == IF backend = "firestore"
               THEN FsLessonResult(user, completions, today, key, xp)
               ELSE SqlLessonResult(backend, user, completions, today, key, xp)
    IN /\ user' = res.user
       /\ completions' = res.completions
       /\ lreq' = [lreq EXCEPT ![1] = LDone(key, xp, res.status)]
       /\ UNCHANGED <<siteVars, backend, courseVars, pureVars, today>>

\* the stores of a new deployment: one registered user, one course
InitStore ==
    /\ backend \in Backends
    /\ completed_modules = 0
    /\ progress = 0
    /\ vreq = [r \in Req |-> Idle]
    /\ user = [total_xp |-> 0, streak_days |-> 0, last_lesson_date |-> NullDate]
    /\ completions = [key \in LessonInputs |-> <<>>]
    /\ today = 1
    /\ lreq = [r \in Req |-> LIdle]
    /\ InitSite

Init ==
    /\ InitStore
    /\ gin = NoCall
    /\ gout = NoCall

\* ---- any number of verify requests, interleaved at their store steps
VerifyNext ==
    \E r \in Req :
        \/ \E m \in ModuleInputs : \E g \in OutcomesFor(m) : CanStart(r) /\ FsVerifyRead(r, m, g)
        \/ FsVerifyWrite(r)
        \/ \E m \in ModuleInputs, ai \in AiOutcomes : CanStart(r) /\ SqlVerifyRead(r, m, ai)
        \/ SqlVerifyWrite(r)

\* (the courses table is the same in the SQLite and the MySQL schema)
InitVerify == Init /\ backend # "mysql"

SpecVerify == InitVerify /\ [][VerifyNext]_vars

\* ---- any number of lesson completions, interleaved at their store steps
RaceLessons == {<<0, 0>>, <<0, 1>>}

LessonNext ==
    \/ \E r \in Req :
        \/ \E key \in RaceLessons : LCanStart(r) /\ FsLessonCheck(r, key, DefaultXp)
        \/ FsLessonInsert(r)
        \/ FsLessonReadUser(r)
        \/ FsLessonUpdate(r)
        \/ \E key \in RaceLessons : LCanStart(r) /\ SqlLessonCheck(r, key, DefaultXp)
        \/ SqlLessonInsert(r)
        \/ SqlLessonAward(r)
        \/ SqlLessonReadDate(r)
        \/ SqlLessonStreak(r)
    \/ Tick

SpecLesson == Init /\ [][LessonNext]_vars

\* ---- lesson completions one after the other
LessonSeqNext ==
    \/ \E key \in LessonInputs, xp \in XpInputs : CompleteLessonSeq(key, xp)
    \/ Tick

SpecLessonSeq == Init /\ [][LessonSeqNext]_vars

\* ---- a store call of completeLesson rejects (or the process stops) after the
\* request has passed its existence check: the catch / the error middleware
\* answers 500 and nothing that was written is taken back
LInFlight(r) == lreq[r].pc \notin {"idle", "done"}

LessonFail(r) ==
    /\ LInFlight(r)
    /\ lreq' = [lreq EXCEPT ![r] = LDone(lreq[r].key, lreq[r].xpEarned, 500)]
    /\ UNCHANGED <<siteVars, backend, courseVars, pureVars, user, completions, today>>

\* one request at a time, each store call of which may fail
LessonFailNext ==
    \/ \E key \in RaceLessons : LCanStart(1) /\ FsLessonCheck(1, key, DefaultXp)
    \/ FsLessonInsert(1)
    \/ FsLessonReadUser(1)
    \/ FsLessonUpdate(1)
    \/ \E key \in RaceLessons : LCanStart(1) /\ SqlLessonCheck(1, key, DefaultXp)
    \/ SqlLessonInsert(1)
    \/ SqlLessonAward(1)
    \/ SqlLessonReadDate(1)
    \/ SqlLessonStreak(1)
    \/ LessonFail(1)
    \/ Tick

SpecLessonFail == Init /\ [][LessonFailNext]_vars

\* ---- lesson completions one after the other, with the xpEarned values a
\* request body can carry: the default, zero and a negative number
ClientXp == {DefaultXp, 0, 0 - OtherXp}

LessonXpNext ==
    \/ \E key \in LessonInputs, xp \in ClientXp : CompleteLessonSeq(key, xp)
    \/ Tick

SpecLessonXp == Init /\ [][LessonXpNext]_vars

\* ---- the grading of verifyModuleMastery as a function of the stored quiz
\* (its correctIndex values) and the request body
NumOptions == 4
\* an answer: the unanswered sentinel -1, an option index, or an index past the options
GradeVals == (-1)..NumOptions
GradeQuizzes == [1..QuizLen -> 0..(NumOptions - 1)]
GradeBodies ==
    {[hasAnswers |-> FALSE, userAnswers |-> <<>>]}
      \cup {[hasAnswers |-> TRUE, userAnswers |-> l] :
                l \in UNION {[1..n -> GradeVals] : n \in 0..(QuizLen + 1)}}

\* the JSON of the response: { passed, score, total, feedback }, or the 500 of the catch
GradeResponse(quiz, body) ==
    LET g == Grade(quiz, body) IN
    IF g.throws
    THEN [fn |-> "grade", status |-> 500, fields |-> {"error"}]
    ELSE [fn |-> "grade", status |-> 200,
          fields |-> {"passed", "score", "total", "feedback"},
          passed |-> Passed(g.score), score |-> g.score, total |-> Len(quiz)]

GradeExitQuiz ==
    /\ gin.fn = "grade"
    /\ gout = NoCall
    /\ gout' = GradeResponse(gin.quiz, gin.body)
    /\ UNCHANGED <<siteVars, backend, courseVars, lessonVars, gin>>

InitGrade ==
    /\ InitStore
    /\ backend = "firestore"
    /\ gin \in {[fn |-> "grade", quiz |-> q, body |-> b] : q \in GradeQuizzes, b \in GradeBodies}
    /\ gout = NoCall

SpecGrade == InitGrade /\ [][GradeExitQuiz]_vars

\* ---- the same grading over stored quizzes of any length: the handler reads
\* whatever exit_quiz array the course document holds. A quiz of n questions
\* whose correct option is 0, and one answer per question, right (0) or wrong (1)
MaxStoredQuiz == 6

InitGradeLen ==
    /\ InitStore
    /\ backend = "firestore"
    /\ gin \in {[fn |-> "grade",
                 quiz |-> [i \in 1..n |-> 0],
                 body |-> [hasAnswers |-> TRUE, userAnswers |-> l]] :
                    n \in 1..MaxStoredQuiz, l \in UNION {[1..m -> {0, 1}] : m \in 1..MaxStoredQuiz}}
    /\ Len(gin.body.userAnswers) = Len(gin.quiz)
    /\ gout = NoCall

SpecGradeLen == InitGradeLen /\ [][GradeExitQuiz]_vars

\* ---- the course lookup every course operation begins with. A course id names
\* no course, or a course owned by one of the users; the request comes from a
\* session user.
NumUsers == 2
Users == 1..NumUsers

\* operations whose lookup is doc(id).get() followed by the userId comparison,
\* or SELECT ... WHERE id = ? AND user_id = ?
OwnerCheckedOps ==
    {"fs course page", "fs lesson", "fs completeLesson", "fs verify-module",
     "fs tutor", "fs chat",
     "sql course page", "sql lesson", "sql complete", "sql exit-quiz",
     "sql verify", "sql tutor"}
\* operations of the server file whose lookup is SELECT * FROM courses WHERE id = ?
IdOnlyOps == {"server course page", "server generate-lesson"}
AccessOps == OwnerCheckedOps \cup IdOnlyOps

CourseFound(op, exists, owner, sessionUser) ==
    /\ exists
    /\ (op \in OwnerCheckedOps) => (owner = sessionUser)

\* not found: 404 (or the redirect carrying 'Course not found.'), nothing of
\* the course in the response; found: the handler goes on with the course
AccessResult(op, exists, owner, sessionUser) ==
    IF CourseFound(op, exists, owner, sessionUser)
    THEN [fn |-> "access", outcome |-> "course", courseData |-> TRUE]
    ELSE [fn |-> "access", outcome |-> "NotFound", courseData |-> FALSE]

AccessCourse ==
    /\ gin.fn = "access"
    /\ gout = NoCall
    /\ gout' = AccessResult(gin.op, gin.exists, gin.owner, gin.sessionUser)
    /\ UNCHANGED <<siteVars, backend, courseVars, lessonVars, gin>>

InitAccess ==
    /\ InitStore
    /\ backend = "firestore"
    /\ gin \in {[fn |-> "access", op |-> op, exists |-> x, owner |-> o, sessionUser |-> u] :
                    op \in AccessOps, x \in BOOLEAN, o \in Users, u \in Users}
    /\ gout = NoCall

SpecAccess == InitAccess /\ [][AccessCourse]_vars

\* ---- one verify request and one lesson completion at a time, with every
\* moduleIndex and (moduleIndex, topicIndex) inside and outside the syllabus
OutOfRangeNext ==
    \/ \E m \in ModuleInputs : \E g \in OutcomesFor(m) : CanStart(1) /\ FsVerifyRead(1, m, g)
    \/ FsVerifyWrite(1)
    \/ \E m \in ModuleInputs, ai \in AiOutcomes : CanStart(1) /\ SqlVerifyRead(1, m, ai)
    \/ SqlVerifyWrite(1)
    \/ \E key \in LessonInputs : CompleteLessonSeq(key, DefaultXp)

SpecOutOfRange == Init /\ [][OutOfRangeNext]_vars

\* ---- the exit quiz of a module as the generator supplies it (parsed JSON).
\* A question: is it an object; its question text (a non-blank string, a blank
\* string, or no string); its options (is it an array, how many of its entries
\* are strings and how many are not); its correctIndex (is it an integer, and
\* which)
WellFormedQ(c) ==
    [isObject |-> TRUE, question |-> "text", optionsIsArray |-> TRUE,
     strings |-> NumOptions, others |-> 0, hasIntIndex |-> TRUE, correctIndex |-> c]

\* well-formed questions, and questions with one defect each
RawQuestions ==
    {WellFormedQ(0), WellFormedQ(NumOptions - 1),
     [WellFormedQ(0) EXCEPT !.isObject = FALSE],
     [WellFormedQ(0) EXCEPT !.question = "blank"],
     [WellFormedQ(0) EXCEPT !.question = "absent"],
     [WellFormedQ(0) EXCEPT !.optionsIsArray = FALSE],
     [WellFormedQ(0) EXCEPT !.strings = NumOptions - 1],
     [WellFormedQ(0) EXCEPT !.strings = NumOptions + 1],
     [WellFormedQ(0) EXCEPT !.others = 1],
     [WellFormedQ(0) EXCEPT !.strings = NumOptions - 1, !.others = 1],
     [WellFormedQ(1) EXCEPT !.hasIntIndex = FALSE],
     WellFormedQ(-1), WellFormedQ(NumOptions)}

\* topics a module of the generator can list
MaxModuleTopics == 4
\* a module: how many topics it has (topic i is named i), and whether it has a title
RawModules == [topics : 0..MaxModuleTopics, hasTitle : BOOLEAN]

Min(a, b) == IF a <= b THEN a ELSE b

\* buildFallbackExitQuiz: seed = topics.slice(0, 3); promptTopic = seed[0] ||
\* module.title || 'this module'; focus of question idx = seed[idx] || promptTopic
FallbackFocusBroken(module, idx) ==
    IF module.topics > 0 THEN [from |-> "topic", topic |-> 0]
    ELSE IF module.hasTitle THEN [from |-> "title", topic |-> -1]
    ELSE [from |-> "this module", topic |-> -1]
FallbackFocus(module, idx) ==
    LET seed == Min(module.topics, QuizLen) IN
    IF idx < seed THEN [from |-> "topic", topic |-> idx]
    ELSE IF seed > 0 THEN [from |-> "topic", topic |-> 0]
    ELSE IF module.hasTitle THEN [from |-> "title", topic |-> -1]
    ELSE [from |-> "this module", topic |-> -1]

buildFallbackExitQuiz(module) ==
    [k \in 1..QuizLen |->
        [question |-> "text", options |-> NumOptions, correctIndex |-> 0,
         from |-> "fallback", review_topic |-> FallbackFocus(module, k - 1)]]

\* the map step of normalizeExitQuiz: the question kept, or null
NullQ == [question |-> "null"]
NormalizeQuestion(q) ==
    LET options == IF q.isObject /\ q.optionsIsArray THEN q.strings ELSE 0
        correctIndex == IF q.isObject /\ q.hasIntIndex THEN q.correctIndex ELSE 0
    IN IF \/ ~q.isObject
          \/ q.question # "text"
          \/ options # NumOptions
          \/ correctIndex < 0
          \/ correctIndex > NumOptions - 1
       THEN NullQ
       ELSE [question |-> "text", options |-> options, correctIndex |-> correctIndex,
             from |-> "generator", review_topic |-> [from |-> "generator", topic |-> -1]]

NotNull(q) == q # NullQ

normalizeExitQuiz(exitQuiz, module) ==
    IF ~exitQuiz.isArray \/ Len(exitQuiz.items) # QuizLen
    THEN buildFallbackExitQuiz(module)
    ELSE LET normalized ==
                 SelectSeq([i \in 1..Len(exitQuiz.items) |-> NormalizeQuestion(exitQuiz.items[i])],
                           NotNull)
         IN IF Len(normalized) # QuizLen
            THEN buildFallbackExitQuiz(module)
            ELSE normalized

\* the exit_quiz values tried: not an array; arrays of up to QuizLen questions;
\* arrays of QuizLen + 1 well-formed questions
RawExitQuizzes ==
    {[isArray |-> FALSE, items |-> <<>>]}
      \cup {[isArray |-> TRUE, items |-> l] :
                l \in UNION {[1..n -> RawQuestions] : n \in 0..QuizLen}}
      \cup {[isArray |-> TRUE, items |-> l] :
                l \in [1..(QuizLen + 1) -> {WellFormedQ(0), WellFormedQ(NumOptions - 1)}]}

NormalizeCall ==
    /\ gin.fn = "normalizeExitQuiz"
    /\ gout = NoCall
    /\ gout' = [fn |-> "normalizeExitQuiz",
                quiz |-> normalizeExitQuiz(gin.exitQuiz, gin.module)]
    /\ UNCHANGED <<siteVars, backend, courseVars, lessonVars, gin>>

InitNormalize ==
    /\ InitStore
    /\ backend = "firestore"
    /\ gin \in {[fn |-> "normalizeExitQuiz", exitQuiz |-> x, module |-> m] :
                    x \in RawExitQuizzes, m \in RawModules}
    /\ gout = NoCall

SpecNormalize == InitNormalize /\ [][NormalizeCall]_vars

\* ---- evaluateAndCreateSyllabus: the generator's syllabus response, parsed,
\* checked, sanitised, and the course stored from it by the caller
SyllabusLen == 6

\* an entry of parsed.syllabus: an object, null, or a primitive (number, string, boolean)
ObjectModule(topics, hasTitle, exitQuiz) ==
    [kind |-> "object", topics |-> topics, hasTitle |-> hasTitle, exit_quiz |-> exitQuiz]
NullModule == [kind |-> "null"]
PrimitiveModule == [kind |-> "primitive"]

GoodQuiz == [isArray |-> TRUE, items |-> <<WellFormedQ(0), WellFormedQ(1), WellFormedQ(NumOptions - 1)>>]
MissingQuiz == [isArray |-> FALSE, items |-> <<>>]
ThreeOptionQuiz ==
    [isArray |-> TRUE,
     items |-> <<WellFormedQ(0), [WellFormedQ(0) EXCEPT !.strings = NumOptions - 1], WellFormedQ(1)>>]

GenModules ==
    {ObjectModule(2, TRUE, GoodQuiz),
     ObjectModule(0, FALSE, MissingQuiz),
     ObjectModule(MaxModuleTopics, TRUE, ThreeOptionQuiz),
     NullModule,
     PrimitiveModule}

\* the response text: empty, not JSON, JSON that is no object, an object whose
\* syllabus is no array, or an object with a syllabus array
SyllabusResponses ==
    {[parse |-> p, syllabus |-> <<>>] : p \in {"empty", "invalid JSON", "not an object", "no syllabus array"}}
      \cup {[parse |-> "ok", syllabus |-> l] :
                l \in UNION {[1..n -> GenModules] : n \in (SyllabusLen - 1)..(SyllabusLen + 1)}}

\* the forEach body: title, description, topics and node are defaulted and
\* exit_quiz is normalised on an object; the assignments to a primitive have no
\* effect (the file is not in strict mode); reading m.title of null throws
SanitizeModule(m) ==
    IF m.kind = "object"
    THEN [kind |-> "object", topics |-> m.topics, hasTitle |-> TRUE,
          hasExitQuiz |-> TRUE,
          exit_quiz |-> normalizeExitQuiz(m.exit_quiz, [m EXCEPT !.hasTitle = TRUE])]
    ELSE [kind |-> m.kind, topics |-> 0, hasTitle |-> FALSE,
          hasExitQuiz |-> FALSE, exit_quiz |-> <<>>]

SyllabusThrows(resp) ==
    \/ resp.parse # "ok"
    \/ Len(resp.syllabus) # SyllabusLen
    \/ \E i \in 1..Len(resp.syllabus) : resp.syllabus[i].kind = "null"

\* the result, and whether the caller has stored a course from it (the callers
\* insert the course after the call and only when it did not throw)
evaluateAndCreateSyllabus(resp) ==
    IF SyllabusThrows(resp)
    THEN [fn |-> "evaluateAndCreateSyllabus", threw |-> TRUE, syllabus |-> <<>>,
          courseStored |-> FALSE]
    ELSE [fn |-> "evaluateAndCreateSyllabus", threw |-> FALSE,
          syllabus |-> [i \in 1..Len(resp.syllabus) |-> SanitizeModule(resp.syllabus[i])],
          courseStored |-> TRUE]

CreateSyllabusCall ==
    /\ gin.fn = "evaluateAndCreateSyllabus"
    /\ gout = NoCall
    /\ gout' = evaluateAndCreateSyllabus(gin.response)
    /\ UNCHANGED <<siteVars, backend, courseVars, lessonVars, gin>>

InitSyllabus ==
    /\ InitStore
    /\ backend = "firestore"
    /\ gin \in {[fn |-> "evaluateAndCreateSyllabus", response |-> resp] : resp \in SyllabusResponses}
    /\ gout = NoCall

SpecSyllabus == InitSyllabus /\ [][CreateSyllabusCall]_vars

\* ---- generateQuiz: the diagnostic quiz of the generator, parsed and validated
DiagQuizLen == 5

\* a diagnostic question: the fields of an exit-quiz question, and weak_topic
\* (absent or null, a string, or some other value)
DiagQ(q, weakTopic) ==
    [isObject |-> q.isObject, question |-> q.question, optionsIsArray |-> q.optionsIsArray,
     strings |-> q.strings, others |-> q.others, hasIntIndex |-> q.hasIntIndex,
     correctIndex |-> q.correctIndex, weak_topic |-> weakTopic]

GoodDiagQs == {DiagQ(WellFormedQ(0), "string"), DiagQ(WellFormedQ(NumOptions - 1), "absent")}
ThreeOptionDiagQ == DiagQ([WellFormedQ(0) EXCEPT !.strings = NumOptions - 1], "string")
DiagQuestions ==
    GoodDiagQs \cup
    {ThreeOptionDiagQ,
     DiagQ([WellFormedQ(0) EXCEPT !.others = 1], "string"),
     DiagQ([WellFormedQ(0) EXCEPT !.question = "blank"], "string"),
     DiagQ([WellFormedQ(1) EXCEPT !.hasIntIndex = FALSE], "string"),
     DiagQ(WellFormedQ(NumOptions), "string"),
     DiagQ(WellFormedQ(0), "other"),
     DiagQ([WellFormedQ(0) EXCEPT !.isObject = FALSE], "absent")}

QuizResponses ==
    {[parse |-> p, isArray |-> FALSE, items |-> <<>>] : p \in {"empty", "invalid JSON"}}
      \cup {[parse |-> "ok", isArray |-> FALSE, items |-> <<>>]}
      \cup {[parse |-> "ok", isArray |-> TRUE, items |-> l] : l \in [1..DiagQuizLen -> DiagQuestions]}
      \cup {[parse |-> "ok", isArray |-> TRUE, items |-> l] :
                l \in UNION {[1..n -> {DiagQ(WellFormedQ(0), "string"), ThreeOptionDiagQ}] :
                                 n \in {DiagQuizLen - 1, DiagQuizLen + 1}}}

\* the checks of validateQuiz on one question, in the order of the code
QuestionThrows(q) ==
    \/ ~q.isObject
    \/ q.question # "text"
    \/ ~q.optionsIsArray
    \/ q.strings + q.others # NumOptions
    \/ q.others > 0
    \/ ~q.hasIntIndex
    \/ q.correctIndex < 0
    \/ q.correctIndex > NumOptions - 1
    \/ q.weak_topic = "other"

validateQuizThrows(quiz) ==
    \/ ~quiz.isArray
    \/ Len(quiz.items) # DiagQuizLen
    \/ \E i \in 1..Len(quiz.items) : QuestionThrows(quiz.items[i])

\* the result, and whether the route has put the quiz into the session as the
\* current assessment (it does so after the call and only when it did not throw)
generateQuiz(resp) ==
    IF resp.parse # "ok" \/ validateQuizThrows(resp)
    THEN [fn |-> "generateQuiz", threw |-> TRUE, quiz |-> <<>>, assessmentStored |-> FALSE]
    ELSE [fn |-> "generateQuiz", threw |-> FALSE, quiz |-> resp.items, assessmentStored |-> TRUE]

GenerateQuizCall ==
    /\ gin.fn = "generateQuiz"
    /\ gout = NoCall
    /\ gout' = generateQuiz(gin.response)
    /\ UNCHANGED <<siteVars, backend, courseVars, lessonVars, gin>>

InitGenerate ==
    /\ InitStore
    /\ backend = "firestore"
    /\ \/ gin \in {[fn |-> "evaluateAndCreateSyllabus", response |-> resp] : resp \in SyllabusResponses}
       \/ gin \in {[fn |-> "generateQuiz", response |-> resp] : resp \in QuizResponses}
    /\ gout = NoCall

GenerateNext == CreateSyllabusCall \/ GenerateQuizCall

SpecGenerate == InitGenerate /\ [][GenerateNext]_vars

\* ---- the level of a created course: the grading response's score, rounded and
\* clamped by gradeQuiz, and the level field of the syllabus response
MaxRawScoreHalves == 12

\* the score of the grading response in halves of a point, -1 to MaxRawScoreHalves / 2
RawScores == (-2)..MaxRawScoreHalves

\* Math.max(0, Math.min(5, Math.round(parsed.score)))
GradedScore(halves) == Max(0, Min(MaxAiScore, (halves + 1) \div 2))

\* parsed.level: absent, the empty string, one of the three levels, another
\* string, or a non-zero number
ParsedLevels == {"absent", "", "Beginner", "Intermediate", "Advanced", "Expert", "number"}

Falsy(level) == level \in {"absent", ""}

DerivedLevel(score) ==
    IF score < 3 THEN "Beginner" ELSE IF score < 5 THEN "Intermediate" ELSE "Advanced"

\* parsed.level || (score < 3 ? 'Beginner' : score < 5 ? 'Intermediate' : 'Advanced')
CourseLevel(parsedLevel, score) ==
    IF Falsy(parsedLevel) THEN DerivedLevel(score) ELSE parsedLevel

LevelCall ==
    /\ gin.fn = "level"
    /\ gout = NoCall
    /\ gout' = [fn |-> "level", score |-> GradedScore(gin.rawScore),
                level |-> CourseLevel(gin.level, GradedScore(gin.rawScore))]
    /\ UNCHANGED <<siteVars, backend, courseVars, lessonVars, gin>>

InitLevel ==
    /\ InitStore
    /\ backend \in {"firestore", "sqlite"}
    /\ gin \in {[fn |-> "level", rawScore |-> h, level |-> l] : h \in RawScores, l \in ParsedLevels}
    /\ gout = NoCall

SpecLevel == InitLevel /\ [][LevelCall]_vars

\* ---- two first-time completions of two different lessons by one user, each
\* request sent once, interleaved at their store calls. gin keeps the user as
\* stored before the two requests.
StartUsers ==
    {[total_xp |-> 0, streak_days |-> 0, last_lesson_date |-> NullDate],
     [total_xp |-> DefaultXp, streak_days |-> 2, last_lesson_date |-> 0],
     [total_xp |-> DefaultXp, streak_days |-> 2, last_lesson_date |-> 1]}

TwoLessonsNext ==
    \/ lreq[1].pc = "idle" /\ FsLessonCheck(1, <<0, 0>>, DefaultXp)
    \/ lreq[2].pc = "idle" /\ FsLessonCheck(2, <<0, 1>>, OtherXp)
    \/ lreq[1].pc = "idle" /\ SqlLessonCheck(1, <<0, 0>>, DefaultXp)
    \/ lreq[2].pc = "idle" /\ SqlLessonCheck(2, <<0, 1>>, OtherXp)
    \/ \E r \in {1, 2} :
        \/ FsLessonInsert(r)
        \/ FsLessonReadUser(r)
        \/ FsLessonUpdate(r)
        \/ SqlLessonInsert(r)
        \/ SqlLessonAward(r)
        \/ SqlLessonReadDate(r)
        \/ SqlLessonStreak(r)
    \/ Tick

InitTwoLessons ==
    /\ backend \in Backends
    /\ completed_modules = 0
    /\ progress = 0
    /\ vreq = [r \in Req |-> Idle]
    /\ user \in StartUsers
    /\ completions = [key \in LessonInputs |-> <<>>]
    /\ today = 1
    /\ lreq = [r \in Req |-> LIdle]
    /\ InitSite
    /\ gin = [fn |-> "twoLessons", user |-> user]
    /\ gout = NoCall

SpecTwoLessons == InitTwoLessons /\ [][TwoLessonsNext]_vars

\* ---- module gating: verify requests, lesson completions and lesson requests
\* of one user, one at a time. The lessons are those of LessonInputs and a
\* lesson of module 1, which is locked until module 0 is passed.
GatedLessons == LessonInputs \cup {<<1, 0>>}

LessonReply(key, status, generated) ==
    [op |-> "lesson", key |-> key, status |-> status, generated |-> generated]

\* GET /course/:id/lesson/:moduleIndex/:topicIndex, Firestore revision, with
\* getLessonForTopic: the lesson is read from the cache, or generated and cached;
\* a failing generator (ok = FALSE) ends the request with the error page
FsGetLesson(key, ok) ==
    /\ backend = "firestore"
    /\ IF key[1] > completed_modules
       THEN /\ reply' = LessonReply(key, 403, FALSE)
            /\ lessons' = lessons
       ELSE IF ~HasTopic(StoredSyllabus, key)
       THEN /\ reply' = LessonReply(key, 404, FALSE)
            /\ lessons' = lessons
       ELSE IF key \in lessons
       THEN /\ reply' = LessonReply(key, 200, FALSE)
            /\ lessons' = lessons
       ELSE IF ~ok
       THEN /\ reply' = LessonReply(key, 500, TRUE)
            /\ lessons' = lessons
       ELSE /\ reply' = LessonReply(key, 200, TRUE)
            /\ lessons' = lessons \cup {key}
    /\ UNCHANGED <<backend, courseVars, lessonVars, pureVars,
                   quizzes, session, assessments, courses>>

\* the same route of the SQL revisions: no cache, and no look at completed_modules
SqlGetLesson(key, ok) ==
    /\ backend # "firestore"
    /\ reply' = IF ~HasTopic(StoredSyllabus, key) THEN LessonReply(key, 404, FALSE)
                ELSE IF ~ok THEN LessonReply(key, 500, TRUE)
                ELSE LessonReply(key, 200, TRUE)
    /\ UNCHANGED <<backend, courseVars, lessonVars, pureVars,
                   lessons, quizzes, session, assessments, courses>>

GatingNext ==
    \/ \E m \in 0..(NumModules - 1) : \E g \in OutcomesFor(m) : CanStart(1) /\ FsVerifyRead(1, m, g)
    \/ FsVerifyWrite(1)
    \/ \E m \in 0..(NumModules - 1), ai \in AiOutcomes : CanStart(1) /\ SqlVerifyRead(1, m, ai)
    \/ SqlVerifyWrite(1)
    \/ \E key \in GatedLessons : vreq[1].pc # "write" /\ CompleteLessonSeq(key, DefaultXp)
    \/ \E key \in GatedLessons, ok \in BOOLEAN : vreq[1].pc # "write" /\ FsGetLesson(key, ok)
    \/ \E key \in GatedLessons, ok \in BOOLEAN : vreq[1].pc # "write" /\ SqlGetLesson(key, ok)

InitGating ==
    /\ backend \in Backends \ {"mysql"}
    /\ completed_modules = 0
    /\ progress = 0
    /\ vreq = [r \in Req |-> Idle]
    /\ user = [total_xp |-> 0, streak_days |-> 0, last_lesson_date |-> NullDate]
    /\ completions = [key \in GatedLessons |-> <<>>]
    /\ today = 1
    /\ lreq = [r \in Req |-> LIdle]
    /\ InitSite
    /\ gin = NoCall
    /\ gout = NoCall

SpecGating == InitGating /\ [][GatingNext]_vars

\* ---- the same verify-module request sent twice: gin is the request, gout the
\* replies so far, each with the completed_modules value the handler read
VerifyReply(snapshot, status, passed) ==
    [snapshot |-> snapshot, status |-> status, passed |-> passed]

\* verifyModuleMastery (Firestore) as one step: the stored exit quiz is graded
FsVerifyOnce(m, body) ==
    LET g == Grade(ModuleAt(StoredSyllabus, m).exit_quiz, body) IN
    IF g.throws
    THEN [reply |-> VerifyReply(completed_modules, 500, FALSE),
          completed_modules |-> completed_modules]
    ELSE [reply |-> VerifyReply(completed_modules, 200, Passed(g.score)),
          completed_modules |-> IF Passed(g.score)
                                THEN NewCompletedFs(completed_modules, m)
                                ELSE completed_modules]

\* the SQL route as one step: generateModuleExitQuiz writes a new quiz and
\* gradeQuiz has the content generator grade the answers against it; ai is the
\* score it returns, or -1 when one of the two calls fails
SqlVerifyOnce(m, ai) ==
    IF ai < 0
    THEN [reply |-> VerifyReply(completed_modules, 500, FALSE),
          completed_modules |-> completed_modules]
    ELSE [reply |-> VerifyReply(completed_modules, 200, Passed(ai)),
          completed_modules |-> IF SqlUnlocks(Passed(ai), m, completed_modules)
                                THEN m + 1 ELSE completed_modules]

VerifyAgain ==
    /\ gin.fn = "verify"
    /\ IF gout = NoCall THEN TRUE ELSE Len(gout.replies) < 2
    /\ \E ai \in AiOutcomes :
         LET res == IF backend = "firestore"
                    THEN FsVerifyOnce(gin.moduleIndex, gin.body)
                    ELSE SqlVerifyOnce(gin.moduleIndex, ai)
             before == IF gout = NoCall THEN <<>> ELSE gout.replies
         IN /\ gout' = [fn |-> "verify", replies |-> Append(before, res.reply)]
            /\ completed_modules' = res.completed_modules
    /\ UNCHANGED <<siteVars, backend, progress, vreq, lessonVars, gin>>

InitVerifyTwice ==
    /\ InitStore
    /\ backend \in {"firestore", "sqlite"}
    /\ gin \in {[fn |-> "verify", moduleIndex |-> m, body |-> b] :
                   m \in 0..(NumModules - 1), b \in Bodies}
    /\ gout = NoCall

SpecVerifyTwice == InitVerifyTwice /\ [][VerifyAgain]_vars

\* ---- the diagnostic assessment of one user session: quiz, submit, and (in
\* the Firestore revision) generate-map. A quiz is named by its number; an
\* assessment and a course record keep the quiz they come from.
MaxQuizzes == 2
MaxStored == 3

DiagReply(op, result) == [op |-> op, result |-> result]

\* GET /quiz/:subject: the generated quiz becomes the session's currentAssessment
StartQuiz(ok) ==
    /\ quizzes < MaxQuizzes
    /\ IF ok
       THEN /\ quizzes' = quizzes + 1
            /\ session' = [quiz |-> quizzes + 1, assessmentId |-> 0]
            /\ reply' = DiagReply("quiz", "quiz page")
       ELSE /\ UNCHANGED <<quizzes, session>>
            /\ reply' = DiagReply("quiz", "failed")
    /\ UNCHANGED <<backend, courseVars, lessonVars, pureVars, lessons, assessments, courses>>

\* POST /quiz/submit, Firestore revision: gradeQuiz, then the assessment is
\* added and its id is put into the session's currentAssessment
FsSubmit(ok) ==
    /\ backend = "firestore"
    /\ (session.quiz # 0 /\ ok) => Len(assessments) < MaxStored
    /\ IF session.quiz = 0
       THEN /\ reply' = DiagReply("submit", "No active assessment found")
            /\ UNCHANGED <<session, assessments>>
       ELSE IF ~ok
       THEN /\ reply' = DiagReply("submit", "failed")
            /\ UNCHANGED <<session, assessments>>
       ELSE /\ assessments' = Append(assessments, [quiz |-> session.quiz])
            /\ session' = [session EXCEPT !.assessmentId = Len(assessments) + 1]
            /\ reply' = DiagReply("submit", "report")
    /\ UNCHANGED <<backend, courseVars, lessonVars, pureVars, lessons, quizzes, courses>>

\* POST /assessment/:id/generate-map (Firestore): the assessment is looked up
\* and a course is added from it
generateMapFromAssessment(assessmentId, ok) ==
    /\ backend = "firestore"
    /\ (assessmentId \in DOMAIN assessments /\ ok) => Len(courses) < MaxStored
    /\ IF assessmentId \notin DOMAIN assessments
       THEN /\ reply' = DiagReply("generate-map", "Assessment not found")
            /\ courses' = courses
       ELSE IF ~ok
       THEN /\ reply' = DiagReply("generate-map", "failed")
            /\ courses' = courses
       ELSE /\ courses' = Append(courses, [quiz |-> assessments[assessmentId].quiz,
                                           assessment |-> assessmentId])
            /\ reply' = DiagReply("generate-map", "course")
    /\ UNCHANGED <<backend, courseVars, lessonVars, pureVars, lessons, quizzes, session,
                   assessments>>

\* POST /quiz/submit, SQL routes: evaluateAndCreateSyllabus, INSERT INTO courses,
\* INSERT INTO assessments, delete req.session.currentAssessment. The outcome is
\* "ok", a failure of the generator (or of the first INSERT), or a failure of
\* the second INSERT; both failures end in the catch block.
SubmitOutcomes == {"ok", "generator fails", "assessment insert fails"}
SqlSubmit(outcome) ==
    /\ backend # "firestore"
    /\ (session.quiz # 0 /\ outcome # "generator fails")
          => (Len(courses) < MaxStored /\ Len(assessments) < MaxStored)
    /\ IF session.quiz = 0
       THEN /\ reply' = DiagReply("submit", "No active assessment found")
            /\ UNCHANGED <<session, assessments, courses>>
       ELSE IF outcome = "generator fails"
       THEN /\ reply' = DiagReply("submit", "failed")
            /\ UNCHANGED <<session, assessments, courses>>
       ELSE IF outcome = "assessment insert fails"
       THEN /\ courses' = Append(courses, [quiz |-> session.quiz, assessment |-> 0])
            /\ reply' = DiagReply("submit", "failed")
            /\ UNCHANGED <<session, assessments>>
       ELSE /\ courses' = Append(courses, [quiz |-> session.quiz, assessment |-> 0])
            /\ assessments' = Append(assessments, [quiz |-> session.quiz])
            /\ session' = NoSession
            /\ reply' = DiagReply("submit", "course")
    /\ UNCHANGED <<backend, courseVars, lessonVars, pureVars, lessons, quizzes>>

DiagnosticNext ==
    \/ \E ok \in BOOLEAN : StartQuiz(ok)
    \/ \E ok \in BOOLEAN : FsSubmit(ok)
    \/ \E a \in 1..MaxStored, ok \in BOOLEAN : generateMapFromAssessment(a, ok)
    \/ \E outcome \in SubmitOutcomes : SqlSubmit(outcome)

SpecDiagnostic == Init /\ [][DiagnosticNext]_vars

\* ---- everything together
Next == VerifyNext \/ LessonNext

Spec == Init /\ [][Next]_vars

\* ---- duplicate requests: from any value i of completed_modules, every
\* request is for module i (the module of the requests already started)
DupStarted == {r \in Req : vreq[r].pc # "idle"}
DupTarget ==
    IF DupStarted = {} THEN completed_modules
    ELSE vreq[CHOOSE r \in DupStarted : TRUE].moduleIndex

InitDup ==
    /\ backend \in Backends \ {"mysql"}
    /\ completed_modules \in 0..(NumModules - 1)
    /\ progress = 0
    /\ vreq = [r \in Req |-> Idle]
    /\ user = [total_xp |-> 0, streak_days |-> 0, last_lesson_date |-> NullDate]
    /\ completions = [key \in LessonInputs |-> <<>>]
    /\ today = 1
    /\ lreq = [r \in Req |-> LIdle]
    /\ InitSite
    /\ gin = NoCall
    /\ gout = NoCall

NextDup ==
    \E r \in Req :
        \/ \E g \in OutcomesFor(DupTarget) :
              vreq[r].pc = "idle" /\ FsVerifyRead(r, DupTarget, g)
        \/ FsVerifyWrite(r)
        \/ \E ai \in AiOutcomes :
              vreq[r].pc = "idle" /\ SqlVerifyRead(r, DupTarget, ai)
        \/ SqlVerifyWrite(r)

SpecDup == InitDup /\ [][NextDup]_vars

\* Math.round(completed / moduleCount * 100)
RoundPct(completed, moduleCount) == (200 * completed + moduleCount) \div (2 * moduleCount)

\* ---- claims

\* C1: in every reachable state, whatever moduleIndex and answers the
\* interleaved verify requests carried,
\* 0 <= completed_modules <= number of modules of the syllabus.
C1_CompletedInRange == completed_modules \in 0..NumModules

\* C1 witness: a passing request has raised the counter to the syllabus length
C1_Witness ==
    /\ completed_modules = NumModules
    /\ \E r \in Req : vreq[r].pc = "done" /\ vreq[r].passed /\ vreq[r].moduleIndex = NumModules - 1

\* C2: the stored progress always equals round(completed_modules / moduleCount * 100).
C2_ProgressMatches == progress = RoundPct(completed_modules, NumModules)

\* C3: with completed_modules = i and only requests for module i running,
\* sequentially or interleaved, the counter never exceeds i + 1 and is exactly
\* i + 1 once a passing request has been answered.
C3_ExactlyOneIncrement ==
    /\ completed_modules <= DupTarget + 1
    /\ \A r \in Req :
          (vreq[r].pc = "done" /\ vreq[r].status = 200 /\ vreq[r].passed)
              => completed_modules = vreq[r].moduleIndex + 1

\* C3 witness: one passing request for module i has been answered while a
\* duplicate of it is still about to write
C3_Witness ==
    \E r, q \in Req :
        /\ r # q
        /\ vreq[r].pc = "done" /\ vreq[r].passed
        /\ vreq[q].pc = "write" /\ vreq[q].moduleIndex = vreq[r].moduleIndex
        /\ completed_modules = vreq[r].moduleIndex + 1

\* C4: a request for an existing module i with completed_modules < i ends at
\* its course read with Forbidden (403) and writes nothing, whatever the answers.
C4_LockedIsForbidden ==
    [][\A r \in Req :
          (/\ CanStart(r)
           /\ vreq'[r] # vreq[r]
           /\ HasModule(StoredSyllabus, vreq'[r].moduleIndex)
           /\ vreq'[r].moduleIndex > completed_modules)
            => (vreq'[r].pc = "done" /\ vreq'[r].status = 403)]_vars

\* C5: a passing request for a module i < completed_modules leaves the stored
\* course as it is and is answered with success and alreadyUnlocked = true.
C5_ReplayIsNoOp ==
    [][\A r \in Req :
          (/\ vreq'[r] # vreq[r]
           /\ vreq'[r].pc = "done"
           /\ vreq'[r].passed
           /\ vreq'[r].moduleIndex < completed_modules)
            => (/\ vreq'[r].status = 200
                /\ vreq'[r].alreadyUnlocked
                /\ completed_modules' = completed_modules
                /\ progress' = progress)]_vars

\* C6: the stored completed_modules never decreases in any step.
C6_NeverDecreases == [][completed_modules' >= completed_modules]_vars

\* C7: a request for the current module (moduleIndex = completed_modules, a
\* module of the syllabus)
\* whose answers do not reach 2 correct, or whose grading fails, is answered
\* at once without a pass and changes nothing stored; a request for the
\* current module that reaches 2 correct goes on to write completed_modules + 1
\* (however many failed attempts came before), and its write stores that value.
C7_FailedAttemptChangesNothing ==
    [][\A r \in Req :
          /\ (/\ HasModule(StoredSyllabus, completed_modules)
               /\ CanStart(r)
               /\ vreq'[r] # vreq[r]
               /\ vreq'[r].moduleIndex = completed_modules)
                => /\ \A g \in OutcomesFor(completed_modules) :
                         FsVerifyRead(r, completed_modules, g)
                           => IF ~g.throws /\ g.score >= 2
                              THEN vreq'[r] = Writing(completed_modules, completed_modules + 1)
                              ELSE /\ vreq'[r].pc = "done" /\ ~vreq'[r].passed
                                   /\ completed_modules' = completed_modules
                                   /\ progress' = progress
                   /\ \A ai \in AiOutcomes :
                         SqlVerifyRead(r, completed_modules, ai)
                           => IF ai >= 2
                              THEN vreq'[r] = Writing(completed_modules, completed_modules + 1)
                              ELSE /\ vreq'[r].pc = "done" /\ ~vreq'[r].passed
                                   /\ completed_modules' = completed_modules
                                   /\ progress' = progress
          /\ (vreq[r].pc = "write" /\ vreq'[r].pc = "done")
                => completed_modules' = vreq[r].newCompletedModules]_vars

\* C7 witness: a failed attempt at module i and a passed attempt at module i
\* have both been answered, and the module is unlocked
C7_Witness ==
    \E r, q \in Req :
        /\ vreq[r].pc = "done" /\ vreq[r].status = 200 /\ ~vreq[r].passed
        /\ vreq[q].pc = "done" /\ vreq[q].status = 200 /\ vreq[q].passed
        /\ vreq[r].moduleIndex = vreq[q].moduleIndex
        /\ completed_modules = vreq[q].moduleIndex + 1

C9_RaceAwardsOnce ==
    /\ \A r \in Req : lreq[r].pc = "done" => lreq[r].status = 200
    /\ (\A r \in Req : lreq[r].pc \in {"idle", "done"})
          => user.total_xp =
                DefaultXp * Cardinality({key \in LessonInputs : completions[key] # <<>>})

\* the streak a completion on `day` must leave, by the calendar rule
StreakRule(lastLessonDate, streak, day) ==
    IF lastLessonDate = day THEN streak
    ELSE IF lastLessonDate = day - 1 THEN streak + 1
    ELSE 1

\* C10: a first-time completion sets the streak from last_lesson_date as it was
\* before the completion: today keeps it, yesterday adds 1, anything else gives 1.
C10_StreakFollowsRule ==
    [][\A key \in LessonInputs, xp \in XpInputs :
          (/\ CompleteLessonSeq(key, xp)
           /\ completions[key] = <<>>
           /\ lreq'[1].status = 200)
            => user'.streak_days =
                  StreakRule(user.last_lesson_date, user.streak_days, today)]_vars

\* the XP of the completion records stored
RECURSIVE SeqSum(_)
SeqSum(q) == IF q = <<>> THEN 0 ELSE Head(q) + SeqSum(Tail(q))

RECURSIVE RecordedXp(_, _)
RecordedXp(comps, keys) ==
    IF keys = {} THEN 0
    ELSE LET key == CHOOSE k \in keys : TRUE
         IN SeqSum(comps[key]) + RecordedXp(comps, keys \ {key})

\* C11: with requests that may fail between any two store operations, whenever
\* no request is running the user holds the award of every completion record
\* stored and of no other (total_xp is the XP of the records, and a user with
\* a record has a last_lesson_date).
C11_RecordIffAwarded ==
    (~LInFlight(1))
        => /\ user.total_xp = RecordedXp(completions, LessonInputs)
           /\ (user.last_lesson_date # NullDate)
                 <=> (\E key \in LessonInputs : completions[key] # <<>>)

\* C12: whatever xpEarned the completeLesson requests carry (zero and negative
\* integers included), total_xp never decreases in any step and is never
\* negative.
C12_XpNeverDecreases ==
    [][user'.total_xp >= user.total_xp /\ user'.total_xp >= 0]_vars

\* the questions of the quiz the answers miss, as 0-based indices
Missed(quiz, answers) == {i \in 0..(Len(quiz) - 1) : answers[i + 1] # quiz[i + 1]}

\* C13: for a 3-question quiz and one option index per question, the grading
\* response has correctCount = the number of matching positions, passed exactly
\* when that is at least 2, and a mistakes list naming the missed questions.
C13_GradingResult ==
    (/\ gout # NoCall
     /\ gin.fn = "grade"
     /\ gin.body.hasAnswers
     /\ Len(gin.body.userAnswers) = Len(gin.quiz)
     /\ \A i \in 1..Len(gin.quiz) : gin.body.userAnswers[i] \in 0..(NumOptions - 1))
        => /\ gout.status = 200
           /\ gout.score = Len(gin.quiz) - Cardinality(Missed(gin.quiz, gin.body.userAnswers))
           /\ gout.passed <=> (gout.score >= 2)
           /\ "mistakes" \in gout.fields
           /\ gout.mistakes = Missed(gin.quiz, gin.body.userAnswers)

\* C14: grading ends in a normal result for every request body: an absent
\* list, a shorter or longer list, the unanswered sentinel and an index past the
\* options all count as incorrect answers, and no error response is given.
C14_GradingNeverErrors ==
    (gout # NoCall /\ gin.fn = "grade")
        => /\ gout.status = 200
           /\ gout.score =
                 Cardinality({i \in 1..Len(gin.quiz) :
                                 /\ gin.body.hasAnswers
                                 /\ i <= Len(gin.body.userAnswers)
                                 /\ gin.body.userAnswers[i] = gin.quiz[i]})

\* C15: for every quiz length the handler grades, passed is the ratio test
\* correctCount / total >= 2/3 (so 2 correct of 6 does not pass).
C15_PassIsRatio ==
    (gout # NoCall /\ gin.fn = "grade" /\ gout.status = 200)
        => (gout.passed <=> (3 * gout.score >= 2 * gout.total))

\* C16: every course operation asked for a course that does not exist, or that
\* another user owns, answers NotFound, puts nothing of the course in the
\* response and leaves the stores as they were.
C16_ForeignCourseNotFound ==
    (/\ gout # NoCall
     /\ gin.fn = "access"
     /\ (~gin.exists \/ gin.owner # gin.sessionUser))
        => /\ gout.outcome = "NotFound"
           /\ ~gout.courseData
           /\ completed_modules = 0 /\ progress = 0
           /\ user.total_xp = 0
           /\ \A key \in LessonInputs : completions[key] = <<>>

\* C17: a verify-module request whose moduleIndex names no module of the
\* syllabus, and a completeLesson call whose (moduleIndex, topicIndex) names no
\* topic, are each answered NotFound (404) and change no record: no completion,
\* no XP, no completed_modules.
C17_OutOfRangeNotFound ==
    [][/\ \A key \in LessonInputs :
            (CompleteLessonSeq(key, DefaultXp) /\ ~HasTopic(StoredSyllabus, key))
                => /\ lreq'[1].status = 404
                   /\ user' = user
                   /\ completions' = completions
       /\ (/\ CanStart(1)
            /\ vreq'[1] # vreq[1]
            /\ ~HasModule(StoredSyllabus, vreq'[1].moduleIndex))
                => /\ vreq'[1].pc = "done"
                   /\ vreq'[1].status = 404
                   /\ completed_modules' = completed_modules
                   /\ progress' = progress]_vars

\* C18: every syllabus evaluateAndCreateSyllabus returns has exactly 6 modules,
\* and each of them carries an exit quiz of exactly 3 questions, each with a
\* non-empty question text, exactly 4 string options and a correctIndex in 0..3.
C18_SyllabusShape ==
    (gout # NoCall /\ gin.fn = "evaluateAndCreateSyllabus" /\ ~gout.threw)
        => /\ Len(gout.syllabus) = 6
           /\ \A i \in 1..Len(gout.syllabus) :
                 /\ gout.syllabus[i].hasExitQuiz
                 /\ Len(gout.syllabus[i].exit_quiz) = 3
                 /\ \A k \in 1..Len(gout.syllabus[i].exit_quiz) :
                       /\ gout.syllabus[i].exit_quiz[k].question = "text"
                       /\ gout.syllabus[i].exit_quiz[k].options = 4
                       /\ gout.syllabus[i].exit_quiz[k].correctIndex \in 0..3

\* C19: when normalizeExitQuiz answers with the fallback quiz, every one of its
\* questions has correctIndex 0, and for a module with at least one topic
\* question k (k = 0, 1, 2) is about the module's k-th topic, or about its first
\* topic when the module has fewer than k + 1 topics.
C19_FallbackFromTopics ==
    (/\ gout # NoCall
     /\ gin.fn = "normalizeExitQuiz"
     /\ gout.quiz[1].from = "fallback")
        => /\ Len(gout.quiz) = 3
           /\ \A k \in 0..2 :
                 /\ gout.quiz[k + 1].from = "fallback"
                 /\ gout.quiz[k + 1].correctIndex = 0
                 /\ gin.module.topics >= 1
                      => gout.quiz[k + 1].review_topic =
                            [from |-> "topic",
                             topic |-> IF gin.module.topics >= k + 1 THEN k ELSE 0]

\* C19 witness: a quiz with a 3-option question was replaced, for a module of
\* two topics, by questions about topic 0, topic 1 and topic 0 again
C19_Witness ==
    /\ gout # NoCall
    /\ gin.fn = "normalizeExitQuiz"
    /\ gin.module.topics = 2
    /\ gin.exitQuiz.isArray /\ Len(gin.exitQuiz.items) = 3
    /\ gin.exitQuiz.items[2].strings = NumOptions - 1
    /\ gout.quiz[1].from = "fallback"
    /\ gout.quiz[2].review_topic.topic = 1
    /\ gout.quiz[3].review_topic.topic = 0

\* what the contract calls a well-formed question: an object with a non-empty
\* question text, exactly 4 options, all strings, and an integer correctIndex in 0..3
WellFormedQuestion(q) ==
    /\ q.isObject
    /\ q.question = "text"
    /\ q.optionsIsArray
    /\ q.strings = 4
    /\ q.others = 0
    /\ q.hasIntIndex
    /\ q.correctIndex \in 0..3

\* a syllabus response is malformed unless it parses to 6 module objects whose
\* exit quizzes are 3 well-formed questions each
MalformedSyllabus(resp) ==
    \/ resp.parse # "ok"
    \/ Len(resp.syllabus) # 6
    \/ \E i \in 1..Len(resp.syllabus) :
          \/ resp.syllabus[i].kind # "object"
          \/ ~resp.syllabus[i].exit_quiz.isArray
          \/ Len(resp.syllabus[i].exit_quiz.items) # 3
          \/ \E k \in 1..Len(resp.syllabus[i].exit_quiz.items) :
                ~WellFormedQuestion(resp.syllabus[i].exit_quiz.items[k])

\* a quiz response is malformed unless it parses to an array of 5 well-formed
\* questions whose weak_topic, when present, is a string
MalformedQuiz(resp) ==
    \/ resp.parse # "ok"
    \/ ~resp.isArray
    \/ Len(resp.items) # 5
    \/ \E k \in 1..Len(resp.items) :
          ~WellFormedQuestion(resp.items[k]) \/ resp.items[k].weak_topic = "other"

\* C20: malformed generator output makes evaluateAndCreateSyllabus and
\* generateQuiz fail with an error; it is never accepted or replaced, and no
\* course and no assessment is stored from it.
C20_MalformedOutputFails ==
    /\ (gout # NoCall /\ gin.fn = "evaluateAndCreateSyllabus" /\ MalformedSyllabus(gin.response))
          => (gout.threw /\ ~gout.courseStored)
    /\ (gout # NoCall /\ gin.fn = "generateQuiz" /\ MalformedQuiz(gin.response))
          => (gout.threw /\ ~gout.assessmentStored)

\* C21: when the generator omits the level, the level of the created course is
\* Beginner for a score below 3, Intermediate for 3 or 4 and Advanced for 5, the
\* score being an integer 0..5; and in every case the stored level is one of
\* Beginner, Intermediate, Advanced.
C21_LevelFromScore ==
    (gout # NoCall /\ gin.fn = "level")
        => /\ gout.score \in 0..5
           /\ gin.level = "absent"
                 => gout.level = CASE gout.score < 3 -> "Beginner"
                                   [] gout.score \in {3, 4} -> "Intermediate"
                                   [] gout.score = 5 -> "Advanced"
           /\ gout.level \in {"Beginner", "Intermediate", "Advanced"}

\* C22: in every reachable state the store holds at most one completion record
\* per lesson of the user's course, whichever store definition is in use, and
\* no step changes a record that already exists.
C22_OneRecordPerLesson ==
    /\ [](\A key \in LessonInputs : Len(completions[key]) <= 1)
    /\ [][\A key \in LessonInputs :
             completions[key] # <<>> => completions'[key] = completions[key]]_vars

\* C23: each completed diagnostic assessment produces at most one course: no
\* two course records come from the same assessment, whether generate-map is
\* repeated for it or the quiz is submitted again after a submit that failed
\* part-way.
C23_OneCoursePerAssessment ==
    \A i, j \in DOMAIN courses : i # j => courses[i] # courses[j]

\* the user after the two completions run one after the other, the first on
\* day d1 and the second on day d2
SequentialUser(b, u, d1, d2) ==
    LET none == [key \in LessonInputs |-> <<>>]
        first == IF b = "firestore"
                 THEN FsLessonResult(u, none, d1, <<0, 0>>, DefaultXp)
                 ELSE SqlLessonResult(b, u, none, d1, <<0, 0>>, DefaultXp)
    IN IF b = "firestore"
       THEN FsLessonResult(first.user, first.completions, d2, <<0, 1>>, OtherXp).user
       ELSE SqlLessonResult(b, first.user, first.completions, d2, <<0, 1>>, OtherXp).user

TwoLessonsDone == lreq[1].pc = "done" /\ lreq[2].pc = "done"

C25_ReportedCounterIsStored ==
    [][\A r \in Req :
          (/\ vreq'[r] # vreq[r]
           /\ vreq'[r].pc = "done"
           /\ vreq'[r].status = 200
           /\ vreq'[r].newCompletedModules # -1)
              => vreq'[r].newCompletedModules = completed_modules']_vars

\* C26: the lesson endpoint serves, generates and caches lesson content only for
\* modules with moduleIndex <= completed_modules; a request for a locked module
\* is answered 403 without a call of the content generator and without a new
\* lesson cache entry.
C26_LockedLessonForbidden ==
    [][(reply' # reply /\ reply'.op = "lesson" /\ reply'.key[1] > completed_modules)
          => /\ reply'.status = 403
             /\ ~reply'.generated
             /\ lessons' = lessons]_vars

\* C27: two verify-module requests for the same module with the same answers,
\* made in the same course state, get the same passed result, and a graded
\* request passes exactly when the answers score the pass mark against the quiz
\* stored in the module.
C27_GradingDeterministic ==
    (gout # NoCall /\ gin.fn = "verify")
        => /\ \A i, j \in 1..Len(gout.replies) :
                 (/\ gout.replies[i].snapshot = gout.replies[j].snapshot
                  /\ gout.replies[i].status = 200
                  /\ gout.replies[j].status = 200)
                    => gout.replies[i].passed = gout.replies[j].passed
           /\ \A i \in 1..Len(gout.replies) :
                 (gout.replies[i].status = 200 /\ gin.body.hasAnswers
                     /\ Len(gin.body.userAnswers) <= QuizLen)
                    => (gout.replies[i].passed <=>
                          Score(ModuleAt(StoredSyllabus, gin.moduleIndex).exit_quiz, gin.body) >= 2)

\* C28: a quiz submit is accepted only while the session holds a pending
\* assessment; a successful submit clears it, so a submit without a pending
\* assessment is rejected with 'No active assessment found' and stores no
\* assessment and no course.
C28_SubmitNeedsPending ==
    [][(reply'.op = "submit" /\ <<reply, session, assessments, courses>>' #
                                   <<reply, session, assessments, courses>>)
          => /\ session.quiz = 0
                  => /\ reply'.result = "No active assessment found"
                     /\ assessments' = assessments
                     /\ courses' = courses
             /\ reply'.result \in {"report", "course"} => session' = NoSession]_vars

\* C29: in every reachable state last_lesson_date is set exactly when
\* streak_days >= 1: a user who has completed no lesson has streak_days 0 and no
\* last_lesson_date, and after a first-time completion streak_days is at least 1
\* and last_lesson_date is the day of that completion.
C29_DateIffStreak ==
    /\ []((user.last_lesson_date # NullDate) <=> (user.streak_days >= 1))
    /\ [][(completions' # completions)
             => (user'.streak_days >= 1 /\ user'.last_lesson_date = today)]_vars

\* C30: a completion record and its XP award are only created for a lesson whose
\* module is unlocked at that moment (moduleIndex <= completed_modules).
C30_NoXpForLockedModule ==
    [][\A key \in DOMAIN completions :
          completions'[key] # completions[key] => key[1] <= completed_modules]_vars

====
